---- MODULE Spec2Model ----
(***************************************************************************)
(* NOXTERM session lifecycle: the session store (db/sessions.rs,           *)
(* db/cleanup.rs), the HTTP handlers and the PTY stream handler of         *)
(* noxterm.rs, and the background tasks of lifecycle.rs; beside them the   *)
(* egress facade (anyone_service.rs), the conversion of session statuses   *)
(* to and from strings, and the task structure of one raw-PTY pump.        *)
(*                                                                         *)
(* Every store operation is one SQL statement and is one atomic step.      *)
(* Handlers and background tasks that issue several statements, or that    *)
(* read the store and act on what they read later, are split at those      *)
(* await points, so that other requests and tasks interleave with them.    *)
(*                                                                         *)
(* Of the audit log only the SessionTerminated and the ContainerStopped    *)
(* events are kept, as counts per session; of the rate_limits table only   *)
(* the session_create endpoint.  Not part of the state: the security-event *)
(* and metrics tables, the last_activity, container_name, image and        *)
(* resource-limit columns.                                                 *)
(***************************************************************************)
EXTENDS Integers, FiniteSets, Sequences, TLC

\* ------------------------------------------------------------------ bounds
NumSessions == 2
NumUsers == 2
NumContainers == 2
NumConns == 2
MaxTime == 2
\* LifecycleConfig.grace_period_secs and .max_containers_per_user are read
\* from the environment (GRACE_PERIOD_SECONDS, MAX_CONTAINERS_PER_USER);
\* the model runs with small values of both.
GracePeriodSecs == 1
MaxContainersPerUser == 1
\* check_and_increment: max_requests of the calls, the clock's step and
\* its last value in the runs that exercise the limiter, and the calls
\* made in one bucket.
MaxRequests == 2
RateStep == 20
MaxRateTime == 130
MaxCalls == MaxRequests + 2
\* date_trunc('minute', NOW()): the seconds of a bucket.
MinuteSecs == 60
\* The egress facade: the requests that call start() or stop() at the same
\* time, and the child processes ever spawned.
NumCallers == 2
MaxChildren == 2
\* The ContainerStopped events counted per session.
MaxStoppedEvents == 1
\* The text and binary frames one raw-PTY pump receives.
MaxFrames == 2
\* The 30 s read timeouts of the input task that fit in its idle_timeout:
\* 600 s / 30 s = 20 in the code; the model runs with 2.
IdleReads == 2

Sessions == 1..NumSessions
Users == 1..NumUsers
ContainerIds == 1..NumContainers
Conns == 1..NumConns
Callers == 1..NumCallers
\* A container id that the runtime never issued (the bind endpoint takes
\* any string from the request body).
BogusId == NumContainers + 1

\* SQL NULL / Rust None for the optional columns and fields.
NULL == -1

VARIABLES
    db_pool,        \* AppState.db_pool is Some(_): fixed at start-up
    db,             \* the sessions table: id -> row, for the ids inserted
    sessions,       \* AppState.sessions, the in-memory cache: id -> Session
    next_session,   \* the next fresh Uuid::new_v4()
    docker,         \* the runtime: container id -> 0 (no such container)
                    \*   or the session whose name the container carries
    docker_next,    \* the next container id the runtime issues
    now,            \* the clock (NOW() and chrono::Utc::now())
    admitted,       \* create_session requests past the quota check that
                    \*   have not inserted yet, per user
    cleanup_task,   \* run_cleanup_task: position and the rows it holds
    health_task,    \* run_health_check_task: position and the rows it holds
    health_cache,   \* LifecycleManager.health_cache: the session ids in it
    reattach,       \* the reattach_session request in flight
    pty,            \* the /pty connections: position, session, container
    audit,          \* audit_logs: per session, its SessionTerminated events
    container_stopped,  \* audit_logs: per session, its ContainerStopped
                    \*   events (counted up to MaxStoppedEvents)
    rate_limits,    \* the rate_limits table: (identifier, window_start)
                    \*   -> request_count (one endpoint, session_create)
    rate_log,       \* per bucket, the check_and_increment calls that
                    \*   returned Ok and those of them that returned true
    orphan_task,    \* run_orphan_detection_task: position, the container
                    \*   ids listed and not yet reached, the one found
                    \*   untracked and not yet stopped
    stop_call,      \* the last LifecycleManager::stop_container call made
                    \*   through the crate's public interface
    create_call,    \* the last create_session request that was denied or
                    \*   that met a failing store: where, and its answer
    anyone_service, \* AnyoneService: status, process (the Child it holds),
                    \*   enabled, client (Some(_) or None)
    anyone_os,      \* the child processes alive, and the next pid
    anyone_calls,   \* the start() and stop() calls in flight: per caller,
                    \*   the operation, its position, its last result
    parsed,         \* the last SessionStatus conversion made: the string
                    \*   or status given and the status obtained
    pump            \* one raw-PTY pump of handle_pty_websocket: its three
                    \*   tasks, its two channels, the client's connection,
                    \*   the shell, the handler waiting for the tasks, the
                    \*   text and binary frames received and the payloads
                    \*   written to the shell's stdin, the read timeouts
                    \*   since last_activity, the kinds of message sent
                    \*   to the client

\* The limiter's part of the state.
limiter == <<rate_limits, rate_log>>

\* The orphan sweep's part of the state.
sweeper == <<orphan_task, stop_call>>

\* The egress facade's part of the state.
facade == <<anyone_service, anyone_os, anyone_calls>>

\* The state of the parts of the service that the session handlers and
\* the lifecycle tasks never touch, and the records kept of single calls.
others == <<create_call, facade, parsed, pump>>

vars == <<db_pool, db, sessions, next_session, docker, docker_next, now,
          admitted, cleanup_task, health_task, health_cache, reattach, pty,
          audit, container_stopped, limiter, sweeper, others>>

\* ------------------------------------------------------- the sessions table

\* SessionStatus, as the strings the status column holds.
SessionStatus == {"created", "running", "disconnected", "terminated"}

\* The row INSERT INTO sessions (id, user_id, container_image,
\* resource_limits) leaves: every other column takes its default.
NewRow(user_id) ==
    [user_id |-> user_id, status |-> "created", container_id |-> NULL,
     disconnected_at |-> NULL, expires_at |-> NULL]

\* UPDATE sessions SET status = $1 WHERE id = $2
UpdateStatus(row, status) ==
    [row EXCEPT !.status = status]

\* UPDATE sessions SET container_id = $1, container_name = $2,
\*        status = 'running' WHERE id = $3
SetContainer(row, container_id) ==
    [row EXCEPT !.container_id = container_id, !.status = "running"]

\* UPDATE sessions SET status = 'disconnected', disconnected_at = NOW(),
\*        expires_at = NOW() + grace WHERE id = $2
MarkDisconnected(row, grace_period_secs) ==
    [row EXCEPT !.status = "disconnected",
                !.disconnected_at = now,
                !.expires_at = now + grace_period_secs]

\* UPDATE sessions SET status = 'running', disconnected_at = NULL,
\*        expires_at = NULL WHERE id = $1
ClearDisconnection(row) ==
    [row EXCEPT !.status = "running",
                !.disconnected_at = NULL,
                !.expires_at = NULL]

\* UPDATE sessions SET status = 'terminated', container_id = NULL,
\*        container_name = NULL WHERE id = $1
Terminate(row) ==
    [row EXCEPT !.status = "terminated", !.container_id = NULL]

\* WHERE status = 'disconnected' AND expires_at IS NOT NULL
\*   AND expires_at < NOW()
Expired(row) ==
    /\ row.status = "disconnected"
    /\ row.expires_at # NULL
    /\ row.expires_at < now

\* get_expired: the rows SELECTed, as (id, container_id) pairs.
GetExpired ==
    {[id |-> s, container_id |-> db[s].container_id] :
        s \in {x \in DOMAIN db : Expired(db[x])}}

\* cleanup_expired_sessions: UPDATE sessions SET status = 'terminated'
\* WHERE the row is expired.
CleanupExpiredSessions ==
    [s \in DOMAIN db |->
        IF Expired(db[s]) THEN [db[s] EXCEPT !.status = "terminated"]
        ELSE db[s]]

\* count_active_by_user: status IN ('created', 'running')
\*   AND container_id IS NOT NULL
CountActiveByUser(user_id) ==
    Cardinality({s \in DOMAIN db :
        /\ db[s].user_id = user_id
        /\ db[s].status \in {"created", "running"}
        /\ db[s].container_id # NULL})

\* LifecycleManager::can_create_container
CanCreateContainer(user_id) ==
    CountActiveByUser(user_id) < MaxContainersPerUser

\* An UPDATE ... WHERE id = $n applied to the table, row being the new
\* value of the row it matches: no row, no change.
UpdateRow(id, row) ==
    IF id \in DOMAIN db THEN [db EXCEPT ![id] = row] ELSE db

\* db::audit::log(.., Some(id), .., EventType::SessionTerminated, ..): one
\* more event for the session.
LogSessionTerminated(id) == [audit EXCEPT ![id] = @ + 1]

\* db::audit::log(.., Some(id), .., EventType::ContainerStopped, ..): one
\* more event for the session.
LogContainerStopped(id) ==
    [container_stopped EXCEPT
        ![id] = IF @ < MaxStoppedEvents THEN @ + 1 ELSE @]

\* HashMap::remove on the in-memory cache.
CacheRemove(id) ==
    [x \in DOMAIN sessions \ {id} |-> sessions[x]]

\* is_container_tracked: SELECT 1 FROM sessions WHERE container_id = $1
\*   AND status != 'terminated'
IsContainerTracked(c) ==
    \E s \in DOMAIN db :
        db[s].container_id = c /\ db[s].status # "terminated"

\* The in-memory Session create_session builds.
NewSession(user_id) ==
    [user_id |-> user_id, status |-> "created", container_id |-> NULL]

\* inspect_container / stats: the runtime has this container.
ContainerExists(c) ==
    c \in ContainerIds /\ docker[c] # 0

\* stop_container / stop + remove: the container is gone afterwards
\* (not-found is success).
StopContainer(c) ==
    IF c \in ContainerIds THEN [docker EXCEPT ![c] = 0] ELSE docker

\* ------------------------------------------------------------------- Init

\* The health task between ticks.
Idle == [pc |-> "idle", rows |-> {}]
\* The cleanup task between ticks.  In a tick, expired is what get_expired
\* returned and rows is the part of it the loop has not reached yet.
NoSweep == [pc |-> "idle", rows |-> {}, expired |-> {}]
\* No reattach request in flight.  A request in flight is at "update"
\* (it read a reattachable row and has not written yet) or at "done"
\* (code is the status code it answers).
NoReattach == [pc |-> "idle", id |-> 0, code |-> 0]
\* A /pty connection slot: "free", "starting" (upgraded, start_container
\* running), "pump" (streaming) or "closed" (the handler has returned;
\* ended says why).
NoPty == [pc |-> "free", id |-> 0, container_id |-> NULL, ended |-> "none"]

\* The orphan task between ticks.  In a sweep, query says how the store
\* query of is_container_tracked ended for the container about to be
\* stopped ("ok": it returned, "err": it failed).
NoOrphanSweep ==
    [pc |-> "idle", ids |-> {}, container_id |-> NULL, query |-> "none"]
\* No stop_container call made yet.  A call is recorded with what the
\* runtime answered at its stop and remove steps ("skipped": the step
\* was not reached), what it returned, and whether an earlier call for
\* the same container had returned Ok.
NoStopCall ==
    [container_id |-> NULL, stop |-> "skipped", remove |-> "skipped",
     result |-> "none", again |-> FALSE]

\* No create_session request recorded yet.  A record says at which store
\* call the request was decided or met a failure ("quota": the count of
\* can_create_container; "insert": db::sessions::create), whether that
\* call returned Err, and what the request did next: the status code it
\* answered, or 0 if it went on to the rest of the handler.
NoCreateCall ==
    [user_id |-> 0, at |-> "none", failed |-> FALSE, code |-> 0]

\* AnyoneService::new: no process, not enabled, Stopped, no client.
NewAnyoneService ==
    [status |-> "Stopped", process |-> NULL, enabled |-> FALSE,
     client |-> FALSE]
\* A caller with no start() or stop() in flight; op and result are those
\* of the call it made last.
NoCall == [op |-> "none", pc |-> "idle", result |-> "none"]

\* No conversion made yet.  A conversion is recorded with the string it
\* was given (a sequence of characters), the status it was made from (for
\* a round trip, else "none") and the status it gave.
NothingParsed == [input |-> <<>>, of |-> "none", status |-> "none"]

\* No exec stream is attached: the pump's tasks and channels do not exist.
NoPump ==
    [handler |-> "none", input_task |-> "none", output_task |-> "none",
     resize_task |-> "none", shutdown |-> 0, resize |-> 0,
     consecutive_errors |-> 0, ws |-> "open", shell |-> "running",
     inbound |-> <<>>, stdin |-> <<>>, idle |-> 0, to_client |-> {}]

Init ==
    /\ db_pool \in BOOLEAN
    /\ db = <<>>
    /\ sessions = <<>>
    /\ next_session = 1
    /\ docker = [c \in ContainerIds |-> 0]
    /\ docker_next = 1
    /\ now = 0
    /\ admitted = [u \in Users |-> 0]
    /\ cleanup_task = NoSweep
    /\ health_task = Idle
    /\ health_cache = {}
    /\ reattach = NoReattach
    /\ pty = [k \in Conns |-> NoPty]
    /\ audit = [s \in Sessions |-> 0]
    /\ container_stopped = [s \in Sessions |-> 0]
    /\ rate_limits = <<>>
    /\ rate_log = <<>>
    /\ orphan_task = NoOrphanSweep
    /\ stop_call = NoStopCall
    /\ create_call = NoCreateCall
    /\ anyone_service = NewAnyoneService
    /\ anyone_os = [children |-> {}, next |-> 1]
    /\ anyone_calls = [i \in Callers |-> NoCall]
    /\ parsed = NothingParsed
    /\ pump = NoPump

\* -------------------------------------------------------- create_session

\* The create_session requests between their quota check and their insert.
RECURSIVE SumAdmitted(_)
SumAdmitted(u) ==
    IF u > NumUsers THEN 0 ELSE admitted[u] + SumAdmitted(u + 1)

InFlight == SumAdmitted(1)

\* create_session up to the quota check (the check runs only with a
\* lifecycle manager, which exists only with a store).  A denied request
\* returns 429 and changes nothing.
CreateCheck(user_id) ==
    /\ next_session + InFlight <= NumSessions
    /\ db_pool => CanCreateContainer(user_id)
    /\ admitted' = [admitted EXCEPT ![user_id] = @ + 1]
    /\ UNCHANGED <<others, limiter, sweeper, audit, container_stopped, db_pool,
                   db, sessions, next_session, docker, docker_next, now,
                   cleanup_task, health_task, health_cache, reattach, pty>>

\* create_session from Uuid::new_v4() on: the row is inserted (with a
\* store) and the Session is put in the cache.
CreateInsert(user_id) ==
    /\ admitted[user_id] > 0
    /\ next_session <= NumSessions
    /\ admitted' = [admitted EXCEPT ![user_id] = @ - 1]
    /\ db' = IF db_pool THEN db @@ (next_session :> NewRow(user_id)) ELSE db
    /\ sessions' = sessions @@ (next_session :> NewSession(user_id))
    /\ next_session' = next_session + 1
    /\ UNCHANGED <<others, limiter, sweeper, audit, container_stopped, db_pool,
                   docker, docker_next, now, cleanup_task, health_task,
                   health_cache, reattach, pty>>

\* The variables of the service proper, for the steps that leave them
\* all as they are.
core ==
    <<db_pool, db, sessions, next_session, docker, docker_next, now,
      admitted, cleanup_task, health_task, health_cache, reattach, pty,
      audit, container_stopped>>

\* create_session denied at the quota check: can_create_container
\* returned Ok(false) and the handler returns 429 "Container limit
\* reached".
CreateDenied(user_id) ==
    /\ db_pool
    /\ ~CanCreateContainer(user_id)
    /\ create_call' =
         [user_id |-> user_id, at |-> "quota", failed |-> FALSE,
          code |-> 429]
    /\ UNCHANGED <<core, limiter, sweeper, facade, parsed, pump>>

\* create_session when can_create_container returns Err (the count query
\* failed): the error is logged and the handler continues as if the check
\* had passed.
CreateCheckStoreFails(user_id) ==
    /\ db_pool
    /\ next_session + InFlight <= NumSessions
    /\ admitted' = [admitted EXCEPT ![user_id] = @ + 1]
    /\ create_call' =
         [user_id |-> user_id, at |-> "quota", failed |-> TRUE, code |-> 0]
    /\ UNCHANGED <<facade, parsed, pump, limiter, sweeper, audit,
                   container_stopped, db_pool, db, sessions, next_session,
                   docker, docker_next, now, cleanup_task, health_task,
                   health_cache, reattach, pty>>

\* create_session from Uuid::new_v4() on when db::sessions::create returns
\* Err: the error is logged, no row is inserted, the Session is put in
\* the cache and 200 is returned.
CreateInsertStoreFails(user_id) ==
    /\ db_pool
    /\ admitted[user_id] > 0
    /\ next_session <= NumSessions
    /\ admitted' = [admitted EXCEPT ![user_id] = @ - 1]
    /\ sessions' = sessions @@ (next_session :> NewSession(user_id))
    /\ next_session' = next_session + 1
    /\ create_call' =
         [user_id |-> user_id, at |-> "insert", failed |-> TRUE,
          code |-> 200]
    /\ UNCHANGED <<facade, parsed, pump, limiter, sweeper, audit,
                   container_stopped, db_pool, db, docker, docker_next, now,
                   cleanup_task, health_task, health_cache, reattach, pty>>

\* ------------------------------------------------------ terminate_session

\* DELETE /api/sessions/{id}: 404 without a cache entry; otherwise the
\* cached container is stopped, the row terminated and the event logged
\* (with a store), the cache entry and the health-cache entry removed.
TerminateSession(id) ==
    /\ id \in DOMAIN sessions
    /\ docker' = StopContainer(sessions[id].container_id)
    /\ db' = IF db_pool THEN UpdateRow(id, Terminate(db[id])) ELSE db
    /\ audit' = IF db_pool THEN LogSessionTerminated(id) ELSE audit
    /\ sessions' = CacheRemove(id)
    /\ health_cache' = health_cache \ {id}
    /\ UNCHANGED <<others, limiter, sweeper, container_stopped, db_pool,
                   next_session, docker_next, now, admitted, cleanup_task,
                   health_task, reattach, pty>>

\* ----------------------------------------------- update_session_container

\* POST /api/sessions/{id}/container with container_id in the body.
UpdateSessionContainer(id, container_id) ==
    /\ db_pool
    /\ db' = UpdateRow(id, SetContainer(db[id], container_id))
    /\ sessions' =
         IF id \in DOMAIN sessions
         THEN [sessions EXCEPT ![id].container_id = container_id,
                               ![id].status = "running"]
         ELSE sessions
    /\ UNCHANGED <<others, limiter, sweeper, audit, container_stopped, db_pool,
                   next_session, docker, docker_next, now, admitted,
                   cleanup_task, health_task, health_cache, reattach, pty>>

\* -------------------------------------------- clear_session_disconnection

\* POST /api/sessions/{id}/reconnect.
ClearSessionDisconnection(id) ==
    /\ db_pool
    /\ db' = UpdateRow(id, ClearDisconnection(db[id]))
    /\ UNCHANGED <<others, limiter, sweeper, audit, container_stopped, db_pool,
                   sessions, next_session, docker, docker_next, now, admitted,
                   cleanup_task, health_task, health_cache, reattach, pty>>

\* ------------------------------------------------------- reattach_session

\* A variant of the test below that still accepts a row at the instant
\* its grace window ends (>= where the handler has >).
ReattachableAtExpiry(row) ==
    /\ row.status = "disconnected"
    /\ row.expires_at # NULL
    /\ row.expires_at >= now

\* The test reattach_session applies to the row it read: disconnected and
\* expires_at > chrono::Utc::now().
Reattachable(row) ==
    /\ row.status = "disconnected"
    /\ row.expires_at # NULL
    /\ row.expires_at > now

\* The in-memory fallback of reattach_session: running with a container.
CacheActive(session) ==
    session.status = "running" /\ session.container_id # NULL

\* POST /api/sessions/{id}/reattach, up to its decision.  With a store
\* that has the row the row decides: reattachable goes on to the update,
\* anything else is 409.  Without a store, or without a row, the cache
\* decides: 200 for a running session with a container, 409 for any
\* other entry, 404 for none.
ReattachGet(id) ==
    /\ reattach.pc = "idle"
    /\ IF db_pool /\ id \in DOMAIN db
       THEN IF Reattachable(db[id])
            THEN reattach' = [pc |-> "update", id |-> id, code |-> 0]
            ELSE reattach' = [pc |-> "done", id |-> id, code |-> 409]
       ELSE IF id \in DOMAIN sessions
       THEN IF CacheActive(sessions[id])
            THEN reattach' = [pc |-> "done", id |-> id, code |-> 200]
            ELSE reattach' = [pc |-> "done", id |-> id, code |-> 409]
       ELSE reattach' = [pc |-> "done", id |-> id, code |-> 404]
    /\ UNCHANGED <<others, limiter, sweeper, audit, container_stopped, db_pool,
                   db, sessions, next_session, docker, docker_next, now,
                   admitted, cleanup_task, health_task, health_cache, pty>>

\* reattach_session from update_status(Running) on: the row's status is
\* set, the cache entry (if any) follows, and 200 is returned.
ReattachUpdate ==
    /\ reattach.pc = "update"
    /\ db' = UpdateRow(reattach.id, UpdateStatus(db[reattach.id], "running"))
    /\ sessions' =
         IF reattach.id \in DOMAIN sessions
         THEN [sessions EXCEPT ![reattach.id].status = "running"]
         ELSE sessions
    /\ reattach' = [reattach EXCEPT !.pc = "done", !.code = 200]
    /\ UNCHANGED <<others, limiter, sweeper, audit, container_stopped, db_pool,
                   next_session, docker, docker_next, now, admitted,
                   cleanup_task, health_task, health_cache, pty>>

\* The response has been sent; the next request may arrive.
ReattachReturn ==
    /\ reattach.pc = "done"
    /\ reattach' = NoReattach
    /\ UNCHANGED <<others, limiter, sweeper, audit, container_stopped, db_pool,
                   db, sessions, next_session, docker, docker_next, now,
                   admitted, cleanup_task, health_task, health_cache, pty>>

\* ------------------------------------------------- the /pty stream handler

\* cleanup_container: the cached container is stopped and removed, and
\* the cache entry is removed.  The store is not touched.
CleanupContainerDocker(id) ==
    IF id \in DOMAIN sessions
    THEN StopContainer(sessions[id].container_id)
    ELSE docker

\* pty_websocket_handler: 404 without a cache entry, else the upgrade.
PtyConnect(k, id) ==
    /\ pty[k].pc \in {"free", "closed"}
    /\ id \in DOMAIN sessions
    /\ pty' = [pty EXCEPT ![k] = [NoPty EXCEPT !.pc = "starting", !.id = id]]
    /\ UNCHANGED <<others, limiter, sweeper, audit, container_stopped, db_pool,
                   db, sessions, next_session, docker, docker_next, now,
                   admitted, cleanup_task, health_task, health_cache,
                   reattach>>

\* start_container succeeds: the runtime creates and starts a container
\* named after the session (no container carries that name yet), and the
\* cache entry, if still there, gets the container and status running.
PtyStartContainer(k) ==
    /\ pty[k].pc = "starting"
    /\ pty[k].id \in DOMAIN sessions
    /\ \A c \in ContainerIds : docker[c] # pty[k].id
    /\ docker_next <= NumContainers
    /\ docker' = [docker EXCEPT ![docker_next] = pty[k].id]
    /\ docker_next' = docker_next + 1
    /\ sessions' = [sessions EXCEPT ![pty[k].id].container_id = docker_next,
                                    ![pty[k].id].status = "running"]
    /\ pty' = [pty EXCEPT ![k].pc = "pump", ![k].container_id = docker_next]
    /\ UNCHANGED <<others, limiter, sweeper, audit, container_stopped, db_pool,
                   db, next_session, now, admitted, cleanup_task, health_task,
                   health_cache, reattach>>

\* start_container fails (session gone from the cache, the name is taken,
\* image pull, create or start fails): the handler reports it, runs
\* cleanup_container and returns.
PtyStartFails(k) ==
    /\ pty[k].pc = "starting"
    /\ docker' = CleanupContainerDocker(pty[k].id)
    /\ sessions' = CacheRemove(pty[k].id)
    /\ pty' = [pty EXCEPT ![k].pc = "closed", ![k].ended = "start_failed"]
    /\ UNCHANGED <<others, limiter, sweeper, audit, container_stopped, db_pool,
                   db, next_session, docker_next, now, admitted, cleanup_task,
                   health_task, health_cache, reattach>>

\* The stream ends (why: the client closed the socket, the shell exited or
\* the exec failed); both pump tasks return and the handler runs
\* cleanup_container.
PtyStreamEnds(k, why) ==
    /\ pty[k].pc = "pump"
    /\ docker' = CleanupContainerDocker(pty[k].id)
    /\ sessions' = CacheRemove(pty[k].id)
    /\ pty' = [pty EXCEPT ![k].pc = "closed", ![k].ended = why]
    /\ UNCHANGED <<others, limiter, sweeper, audit, container_stopped, db_pool,
                   db, next_session, docker_next, now, admitted, cleanup_task,
                   health_task, health_cache, reattach>>

\* -------------------------------------------------------- run_cleanup_task

\* A tick of the cleanup task: get_expired.
CleanupTick ==
    /\ db_pool
    /\ cleanup_task.pc = "idle"
    /\ cleanup_task' =
         [pc |-> "loop", rows |-> GetExpired, expired |-> GetExpired]
    /\ UNCHANGED <<others, limiter, sweeper, audit, container_stopped, db_pool,
                   db, sessions, next_session, docker, docker_next, now,
                   admitted, health_task, health_cache, reattach, pty>>

\* One pass of the loop over the expired sessions, for the row e it read:
\* stop the container, terminate the row, log the event, drop the
\* health-cache entry.
CleanupSession(e) ==
    /\ cleanup_task.pc = "loop"
    /\ e \in cleanup_task.rows
    /\ docker' = StopContainer(e.container_id)
    /\ db' = UpdateRow(e.id, Terminate(db[e.id]))
    /\ audit' = LogSessionTerminated(e.id)
    /\ health_cache' = health_cache \ {e.id}
    /\ cleanup_task' = [cleanup_task EXCEPT !.rows = @ \ {e}]
    /\ UNCHANGED <<others, limiter, sweeper, container_stopped, db_pool,
                   sessions, next_session, docker_next, now, admitted,
                   health_task, reattach, pty>>

\* After the loop: db::cleanup::run_all, whose first statement is
\* cleanup_expired_sessions (the others trim tables outside this model).
CleanupRunAll ==
    /\ cleanup_task.pc = "loop"
    /\ cleanup_task.rows = {}
    /\ db' = CleanupExpiredSessions
    /\ cleanup_task' = NoSweep
    /\ UNCHANGED <<others, limiter, sweeper, audit, container_stopped, db_pool,
                   sessions, next_session, docker, docker_next, now, admitted,
                   health_task, health_cache, reattach, pty>>

\* --------------------------------------------------- run_health_check_task

\* list(None, Some("running"), 1000), as (id, container_id) pairs.
ListRunning ==
    {[id |-> s, container_id |-> db[s].container_id] :
        s \in {x \in DOMAIN db : db[x].status = "running"}}

\* A tick of the health task: list the running sessions.
HealthTick ==
    /\ db_pool
    /\ health_task.pc = "idle"
    /\ ListRunning # {}
    /\ health_task' = [pc |-> "loop", rows |-> ListRunning]
    /\ UNCHANGED <<others, limiter, sweeper, audit, container_stopped, db_pool,
                   db, sessions, next_session, docker, docker_next, now,
                   admitted, cleanup_task, health_cache, reattach, pty>>

\* One pass of the loop, for the row e it read: a row without a container
\* is skipped; a container the runtime has is cached as healthy; a
\* container the runtime does not have marks the session disconnected.
HealthCheck(e) ==
    /\ health_task.pc = "loop"
    /\ e \in health_task.rows
    /\ health_task' =
         IF health_task.rows = {e} THEN Idle
         ELSE [health_task EXCEPT !.rows = @ \ {e}]
    /\ IF e.container_id = NULL
       THEN UNCHANGED <<db, health_cache, container_stopped>>
       ELSE IF ContainerExists(e.container_id)
       THEN /\ health_cache' = health_cache \cup {e.id}
            /\ UNCHANGED <<db, container_stopped>>
       ELSE /\ db' = UpdateRow(e.id,
                       MarkDisconnected(db[e.id], GracePeriodSecs))
            /\ container_stopped' = LogContainerStopped(e.id)
            /\ UNCHANGED health_cache
    /\ UNCHANGED <<others, limiter, sweeper, audit, db_pool, sessions,
                   next_session, docker, docker_next, now, admitted,
                   cleanup_task, reattach, pty>>

\* --------------------------------------- LifecycleManager::stop_container

\* What the runtime answers to the stop request (the 404 the code
\* matches, success, or any other error) ...
StopAnswers(c) ==
    IF ContainerExists(c) THEN {"ok", "error"} ELSE {"not_found", "error"}

\* ... and to the remove request that follows: a container that was there
\* at the stop step may be gone by now (containers are created
\* auto_remove).
RemoveAnswers(c) ==
    IF ContainerExists(c) THEN {"ok", "not_found", "error"}
    ELSE {"not_found", "error"}

\* Every pair of answers.
RuntimeAnswers ==
    [stop : {"ok", "not_found", "error"},
     remove : {"ok", "not_found", "error", "skipped"}]

\* The answers of one call: no remove request after a 404 at the stop step
\* (return Ok(())).
StopContainerAnswers(c) ==
    {a \in RuntimeAnswers :
        /\ a.stop \in StopAnswers(c)
        /\ IF a.stop = "not_found" THEN a.remove = "skipped"
           ELSE a.remove \in RemoveAnswers(c)}

\* A variant of the result below in which only a remove request that
\* succeeds makes the call succeed.
StopContainerResultStrict(a) ==
    IF a.remove = "ok" THEN "ok" ELSE "err"

\* What stop_container returns: Ok(()) on a 404 at the stop step; any
\* other stop error is followed by a kill whose result is dropped; then
\* Ok(()) if the remove request succeeds or answers 404, Err otherwise.
StopContainerResult(a) ==
    IF a.stop = "not_found" THEN "ok"
    ELSE IF a.remove \in {"ok", "not_found"} THEN "ok"
    ELSE "err"

\* The runtime after the call: the container is gone unless the remove
\* request failed with another error.
RuntimeAfterStop(c, a) ==
    IF a.remove \in {"ok", "not_found"} THEN StopContainer(c) ELSE docker

\* stop_container(c), called through the crate's interface
\* (LifecycleManager and stop_container are pub) with an id the runtime
\* has issued or one it never issued.
StopContainerCall(c, a) ==
    /\ db_pool
    /\ c \in (1..(docker_next - 1)) \cup {BogusId}
    /\ a \in StopContainerAnswers(c)
    /\ docker' = RuntimeAfterStop(c, a)
    /\ stop_call' =
         [container_id |-> c, stop |-> a.stop, remove |-> a.remove,
          result |-> StopContainerResult(a),
          again |-> /\ stop_call.container_id = c
                    /\ stop_call.result = "ok"]
    /\ UNCHANGED <<others, limiter, orphan_task, audit, container_stopped,
                   db_pool, db, sessions, next_session, docker_next, now,
                   admitted, cleanup_task, health_task, health_cache, reattach,
                   pty>>

\* ----------------------------------------------- run_orphan_detection_task

\* A tick of the orphan task: list_noxterm_containers returns the ids of
\* the containers the runtime has (every container of the model carries a
\* noxterm-session- name).  With nothing listed the loop body never runs.
OrphanTick ==
    /\ db_pool
    /\ orphan_task.pc = "idle"
    /\ {c \in ContainerIds : ContainerExists(c)} # {}
    /\ orphan_task' =
         [pc |-> "loop", ids |-> {c \in ContainerIds : ContainerExists(c)},
          container_id |-> NULL, query |-> "none"]
    /\ UNCHANGED <<others, limiter, stop_call, audit, container_stopped,
                   db_pool, db, sessions, next_session, docker, docker_next,
                   now, admitted, cleanup_task, health_task, health_cache,
                   reattach, pty>>

\* The orphan task with nothing more to do for this container: at the
\* next one, or waiting for the next tick.
OrphanNext ==
    IF orphan_task.ids = {} THEN NoOrphanSweep
    ELSE [orphan_task EXCEPT !.container_id = NULL, !.query = "none"]

\* A variant of the step below with the test reversed: a tracked
\* container is the one to stop, an untracked one is skipped.
OrphanCheckReversed(c) ==
    /\ orphan_task.pc = "loop"
    /\ orphan_task.container_id = NULL
    /\ c \in orphan_task.ids
    /\ orphan_task' =
         IF ~IsContainerTracked(c)
         THEN IF orphan_task.ids = {c} THEN NoOrphanSweep
              ELSE [orphan_task EXCEPT !.ids = @ \ {c}]
         ELSE [orphan_task EXCEPT !.ids = @ \ {c}, !.container_id = c,
                                  !.query = "ok"]
    /\ UNCHANGED <<others, limiter, stop_call, audit, container_stopped,
                   db_pool, db, sessions, next_session, docker, docker_next,
                   now, admitted, cleanup_task, health_task, health_cache,
                   reattach, pty>>

\* let is_tracked = self.is_container_tracked(&container_id).await, for
\* the next container of the list: a tracked one is skipped, an untracked
\* one is the one to stop.
OrphanCheck(c) ==
    /\ orphan_task.pc = "loop"
    /\ orphan_task.container_id = NULL
    /\ c \in orphan_task.ids
    /\ orphan_task' =
         IF IsContainerTracked(c)
         THEN IF orphan_task.ids = {c} THEN NoOrphanSweep
              ELSE [orphan_task EXCEPT !.ids = @ \ {c}]
         ELSE [orphan_task EXCEPT !.ids = @ \ {c}, !.container_id = c,
                                  !.query = "ok"]
    /\ UNCHANGED <<others, limiter, stop_call, audit, container_stopped,
                   db_pool, db, sessions, next_session, docker, docker_next,
                   now, admitted, cleanup_task, health_task, health_cache,
                   reattach, pty>>

\* The same step when the store query fails: is_container_tracked matches
\* Ok(Some(_)) => true and anything else, the Err included, => false, so
\* the container is the one to stop whatever the store holds.
OrphanCheckStoreFails(c) ==
    /\ orphan_task.pc = "loop"
    /\ orphan_task.container_id = NULL
    /\ c \in orphan_task.ids
    /\ orphan_task' =
         [orphan_task EXCEPT !.ids = @ \ {c}, !.container_id = c,
                             !.query = "err"]
    /\ UNCHANGED <<others, limiter, stop_call, audit, container_stopped,
                   db_pool, db, sessions, next_session, docker, docker_next,
                   now, admitted, cleanup_task, health_task, health_cache,
                   reattach, pty>>

\* self.stop_container(&container_id).await for the container found
\* untracked; its result is only logged.
OrphanStop(a) ==
    /\ orphan_task.pc = "loop"
    /\ orphan_task.container_id # NULL
    /\ a \in StopContainerAnswers(orphan_task.container_id)
    /\ docker' = RuntimeAfterStop(orphan_task.container_id, a)
    /\ orphan_task' = OrphanNext
    /\ UNCHANGED <<others, limiter, stop_call, audit, container_stopped,
                   db_pool, db, sessions, next_session, docker_next, now,
                   admitted, cleanup_task, health_task, health_cache, reattach,
                   pty>>

\* The steps of the orphan task.
OrphanStep ==
    \/ OrphanTick
    \/ \E c \in ContainerIds : OrphanCheck(c)
    \/ \E c \in ContainerIds : OrphanCheckStoreFails(c)
    \/ \E a \in RuntimeAnswers : OrphanStop(a)

\* ------------------------------------------------------------ environment

\* A second passes.
Tick ==
    /\ now < MaxTime
    /\ now' = now + 1
    /\ UNCHANGED <<others, limiter, sweeper, audit, container_stopped, db_pool,
                   db, sessions, next_session, docker, docker_next, admitted,
                   cleanup_task, health_task, health_cache, reattach, pty>>

\* A container exits or crashes (containers are created auto_remove).
ContainerExits(c) ==
    /\ ContainerExists(c)
    /\ docker' = [docker EXCEPT ![c] = 0]
    /\ UNCHANGED <<others, limiter, sweeper, audit, container_stopped, db_pool,
                   db, sessions, next_session, docker_next, now, admitted,
                   cleanup_task, health_task, health_cache, reattach, pty>>

\* The container ids a client can put in a bind request: the ids the
\* runtime has issued, and one it never issued.
PayloadIds == (1..(docker_next - 1)) \cup {BogusId}

StreamEnds == {"client_closed", "shell_exited"}

\* --------------------------------------------- db::sessions as a library

\* The store's operations are public functions of the crate (lib.rs
\* exports db): a caller with a pool calls them in any order.  Every
\* call is one SQL statement.

\* db::sessions::create
SessionsCreate(user_id) ==
    /\ db_pool
    /\ next_session <= NumSessions
    /\ db' = db @@ (next_session :> NewRow(user_id))
    /\ next_session' = next_session + 1
    /\ UNCHANGED <<others, limiter, sweeper, audit, container_stopped, db_pool,
                   sessions, docker, docker_next, now, admitted, cleanup_task,
                   health_task, health_cache, reattach, pty>>

\* The other operations: db becomes table, nothing else changes.
SessionsCall(table) ==
    /\ db_pool
    /\ db' = table
    /\ UNCHANGED <<others, limiter, sweeper, audit, container_stopped, db_pool,
                   sessions, next_session, docker, docker_next, now, admitted,
                   cleanup_task, health_task, health_cache, reattach, pty>>

\* db::sessions::update_status
SessionsUpdateStatus(id, status) ==
    SessionsCall(UpdateRow(id, UpdateStatus(db[id], status)))

\* db::sessions::set_container
SessionsSetContainer(id, container_id) ==
    SessionsCall(UpdateRow(id, SetContainer(db[id], container_id)))

\* db::sessions::mark_disconnected
SessionsMarkDisconnected(id, grace_period_secs) ==
    SessionsCall(UpdateRow(id, MarkDisconnected(db[id], grace_period_secs)))

\* db::sessions::clear_disconnection
SessionsClearDisconnection(id) ==
    SessionsCall(UpdateRow(id, ClearDisconnection(db[id])))

\* db::sessions::terminate
SessionsTerminate(id) ==
    SessionsCall(UpdateRow(id, Terminate(db[id])))

\* ------------------------------------------------ rate_limits (the limiter)

\* date_trunc('minute', t)
DateTruncMinute(t) == t - (t % MinuteSecs)

\* The window lengths the calls pass (create_session passes 60).
WindowChoices == {MinuteSecs \div 2, MinuteSecs}

\* The key of the row a call at this time inserts or conflicts with.
BucketKey(identifier) ==
    [identifier |-> identifier, window_start |-> DateTruncMinute(now)]

\* ON CONFLICT ... DO UPDATE ... WHERE window_start > NOW() - window: the
\* row in conflict is updated only if the test holds.
ConflictUpdates(key, window_seconds) ==
    key.window_start > now - window_seconds

\* A variant of the test below that refuses the call that reaches
\* max_requests (< where the code has <=).
AllowedBelowMax(request_count, max_requests) == request_count < max_requests

\* let allowed = result.0 <= max_requests
Allowed(request_count, max_requests) == request_count <= max_requests

\* One entry more in a function.
Put(f, key, value) ==
    [x \in DOMAIN f \cup {key} |-> IF x = key THEN value ELSE f[x]]

\* check_and_increment(identifier, "session_create", max_requests,
\* window_seconds): one statement.  Without a row for the bucket the
\* row is inserted with count 1; with one, its count goes up by one if
\* the WHERE of the update holds; the statement returns the new count
\* and the call Ok(count <= max_requests).  If the WHERE does not hold the
\* statement returns no row and fetch_one fails: the call returns Err and
\* the table is as before.
CheckAndIncrement(identifier, max_requests, window_seconds) ==
    LET key == BucketKey(identifier)
        fresh == key \notin DOMAIN rate_limits
        count == IF fresh THEN 1 ELSE rate_limits[key] + 1
        log == IF key \in DOMAIN rate_log THEN rate_log[key]
               ELSE [ok |-> 0, allowed |-> 0]
    IN  /\ db_pool
        /\ log.ok < MaxCalls
        /\ IF fresh \/ ConflictUpdates(key, window_seconds)
           THEN /\ rate_limits' = Put(rate_limits, key, count)
                /\ rate_log' = Put(rate_log, key,
                      [ok |-> log.ok + 1,
                       allowed |-> IF Allowed(count, max_requests)
                                   THEN log.allowed + 1 ELSE log.allowed])
           ELSE UNCHANGED <<rate_limits, rate_log>>
        /\ UNCHANGED <<others, sweeper, audit, container_stopped, db_pool, db,
                       sessions, next_session, docker, docker_next, now,
                       admitted, cleanup_task, health_task, health_cache,
                       reattach, pty>>

\* Time passes for the limiter.
RateTick ==
    /\ now + RateStep <= MaxRateTime
    /\ now' = now + RateStep
    /\ UNCHANGED <<others, limiter, sweeper, audit, container_stopped, db_pool,
                   db, sessions, next_session, docker, docker_next, admitted,
                   cleanup_task, health_task, health_cache, reattach, pty>>

\* ------------------------------------------ SessionStatus <-> its string

\* The variants of the enum.
SessionStatusVariants == {"Created", "Running", "Disconnected", "Terminated"}

\* The capital letters of the strings the model converts, each with its
\* small letter.
Capitals ==
    [A |-> "a", C |-> "c", D |-> "d", E |-> "e", G |-> "g", I |-> "i",
     K |-> "k", N |-> "n", O |-> "o", R |-> "r", S |-> "s", T |-> "t",
     U |-> "u", W |-> "w"]

\* str::to_lowercase, character by character.
ToLowercase(s) ==
    [i \in DOMAIN s |-> IF s[i] \in DOMAIN Capitals THEN Capitals[s[i]]
                        ELSE s[i]]

\* impl Display for SessionStatus: the string written, as its characters.
Display(status) ==
    CASE status = "Created" -> <<"c", "r", "e", "a", "t", "e", "d">>
      [] status = "Running" -> <<"r", "u", "n", "n", "i", "n", "g">>
      [] status = "Disconnected" ->
            <<"d", "i", "s", "c", "o", "n", "n", "e", "c", "t", "e", "d">>
      [] status = "Terminated" ->
            <<"t", "e", "r", "m", "i", "n", "a", "t", "e", "d">>

\* A variant of the conversion below that matches the string as given.
FromCaseSensitive(s) ==
    IF s = Display("Created") THEN "Created"
    ELSE IF s = Display("Running") THEN "Running"
    ELSE IF s = Display("Disconnected") THEN "Disconnected"
    ELSE IF s = Display("Terminated") THEN "Terminated"
    ELSE "Created"

\* impl From<&str> for SessionStatus: match s.to_lowercase().as_str(),
\* with Created for every other string.
From(s) ==
    IF ToLowercase(s) = Display("Created") THEN "Created"
    ELSE IF ToLowercase(s) = Display("Running") THEN "Running"
    ELSE IF ToLowercase(s) = Display("Disconnected") THEN "Disconnected"
    ELSE IF ToLowercase(s) = Display("Terminated") THEN "Terminated"
    ELSE "Created"

\* The small letter's capital, or the character itself.
Capital(c) ==
    IF \E k \in DOMAIN Capitals : Capitals[k] = c
    THEN CHOOSE k \in DOMAIN Capitals : Capitals[k] = c
    ELSE c

\* The spellings of a string in small and capital letters.
Spellings(s) ==
    {[i \in DOMAIN s |-> IF up[i] THEN Capital(s[i]) ELSE s[i]] :
        up \in [DOMAIN s -> BOOLEAN]}

\* Strings that are no spelling of a status name: the empty string, other
\* words, names cut short, extended or padded.
OtherStrings ==
    {<<>>,
     <<"u", "n", "k", "n", "o", "w", "n">>,
     <<"c", "r", "e", "a", "t", "e">>,
     <<"C", "R", "E", "A", "T", "E", "D", " ">>,
     <<" ", "r", "u", "n", "n", "i", "n", "g">>,
     <<"R", "u", "n">>,
     <<"s", "t", "o", "p", "p", "e", "d">>,
     <<"t", "e", "r", "m", "i", "n", "a", "t", "e">>,
     <<"d", "i", "s", "c", "o", "n", "n", "e", "c", "t">>,
     <<"D", "I", "S", "C", "O", "N", "N", "E", "C", "T", "E", "D", "!">>}

\* The strings handed to the conversion.
StatusStrings ==
    UNION {Spellings(Display(status)) : status \in SessionStatusVariants}
        \cup OtherStrings

\* SessionStatus::from(s), as the one conversion of a behaviour.
ParseStatus(s) ==
    /\ parsed = NothingParsed
    /\ parsed' = [input |-> s, of |-> "none", status |-> From(s)]
    /\ UNCHANGED <<core, limiter, sweeper, create_call, facade, pump>>

\* SessionStatus::from(status.to_string().as_str()), likewise.
RoundTrip(status) ==
    /\ parsed = NothingParsed
    /\ parsed' = [input |-> Display(status), of |-> status,
                  status |-> From(Display(status))]
    /\ UNCHANGED <<core, limiter, sweeper, create_call, facade, pump>>

\* ------------------------------------------- AnyoneService (egress facade)

\* The call of caller i has returned with this result.
Returned(op, result) == [op |-> op, pc |-> "idle", result |-> result]

\* The call of caller i is at this position.
At(op, pc) == [op |-> op, pc |-> pc, result |-> "none"]

\* The process mutex is held: stop() locks it before it takes the child
\* and holds the guard until it returns.
ProcessLocked ==
    \E i \in Callers :
        /\ anyone_calls[i].op = "stop"
        /\ anyone_calls[i].pc \in {"clear", "disable", "stopped"}

\* A step of caller i that leaves the facade's fields and the processes
\* as they are.
CallOnly(i, call) ==
    /\ anyone_calls' = [anyone_calls EXCEPT ![i] = call]
    /\ UNCHANGED <<anyone_service, anyone_os>>

\* A step of caller i that changes the facade's fields.
CallSets(i, call, service) ==
    /\ anyone_calls' = [anyone_calls EXCEPT ![i] = call]
    /\ anyone_service' = service
    /\ UNCHANGED anyone_os

\* start(), under the status lock: Ok at once if Running, else Starting.
AnyoneStart(i) ==
    /\ anyone_calls[i].pc = "idle"
    /\ IF anyone_service.status = "Running"
       THEN CallOnly(i, Returned("start", "ok"))
       ELSE CallSets(i, At("start", "prereq"),
                     [anyone_service EXCEPT !.status = "Starting"])
    /\ UNCHANGED <<core, limiter, sweeper, create_call, parsed, pump>>

\* ensure_nodejs_installed, ensure_anyone_client_installed and
\* create_terms_agreement: any of them failing returns the error (?).
AnyoneStartPrerequisites(i, ok) ==
    /\ anyone_calls[i] = At("start", "prereq")
    /\ CallOnly(i, IF ok THEN At("start", "spawn")
                   ELSE Returned("start", "err"))
    /\ UNCHANGED <<core, limiter, sweeper, create_call, parsed, pump>>

\* A variant of the test below that lets start() spawn whatever the
\* facade holds.
NoProcessHeldUnchecked(process) == process = process

\* if process.is_some() { return Ok(()) }, negated.
NoProcessHeld(process) == process = NULL

\* start(), under the process mutex: Ok at once if a child is held;
\* otherwise spawn_anyone_process, whose failure returns the error and
\* whose child is stored.
AnyoneStartSpawn(i, ok) ==
    /\ anyone_calls[i] = At("start", "spawn")
    /\ ~ProcessLocked
    /\ IF ~NoProcessHeld(anyone_service.process)
       THEN CallOnly(i, Returned("start", "ok"))
       ELSE IF ~ok
       THEN CallOnly(i, Returned("start", "err"))
       ELSE /\ anyone_os.next <= MaxChildren
            /\ anyone_calls' = [anyone_calls EXCEPT ![i] = At("start", "wait")]
            /\ anyone_service' =
                 [anyone_service EXCEPT !.process = anyone_os.next]
            /\ anyone_os' =
                 [children |-> anyone_os.children \cup {anyone_os.next},
                  next |-> anyone_os.next + 1]
    /\ UNCHANGED <<core, limiter, sweeper, create_call, parsed, pump>>

\* wait_for_ready: Ok when the SOCKS port answers within 30 attempts (a
\* child must be alive for that); otherwise status becomes Error and the
\* error is returned.
AnyoneStartWaitForReady(i, ready) ==
    /\ anyone_calls[i] = At("start", "wait")
    /\ ready => anyone_os.children # {}
    /\ IF ready
       THEN CallOnly(i, At("start", "client"))
       ELSE CallSets(i, Returned("start", "err"),
                     [anyone_service EXCEPT !.status = "Error"])
    /\ UNCHANGED <<core, limiter, sweeper, create_call, parsed, pump>>

\* initialize_proxy_client: the client is stored, or building it fails and
\* the error is returned.
AnyoneStartClient(i, ok) ==
    /\ anyone_calls[i] = At("start", "client")
    /\ IF ok
       THEN CallSets(i, At("start", "enable"),
                     [anyone_service EXCEPT !.client = TRUE])
       ELSE CallOnly(i, Returned("start", "err"))
    /\ UNCHANGED <<core, limiter, sweeper, create_call, parsed, pump>>

\* *self.enabled.write().await = true
AnyoneStartEnable(i) ==
    /\ anyone_calls[i] = At("start", "enable")
    /\ CallSets(i, At("start", "running"),
                [anyone_service EXCEPT !.enabled = TRUE])
    /\ UNCHANGED <<core, limiter, sweeper, create_call, parsed, pump>>

\* *self.status.write().await = ServiceStatus::Running; Ok(())
AnyoneStartRunning(i) ==
    /\ anyone_calls[i] = At("start", "running")
    /\ CallSets(i, Returned("start", "ok"),
                [anyone_service EXCEPT !.status = "Running"])
    /\ UNCHANGED <<core, limiter, sweeper, create_call, parsed, pump>>

\* stop(), under the status lock: Ok at once if Stopped, else Stopping.
AnyoneStop(i) ==
    /\ anyone_calls[i].pc = "idle"
    /\ IF anyone_service.status = "Stopped"
       THEN CallOnly(i, Returned("stop", "ok"))
       ELSE CallSets(i, At("stop", "kill"),
                     [anyone_service EXCEPT !.status = "Stopping"])
    /\ UNCHANGED <<core, limiter, sweeper, create_call, parsed, pump>>

\* stop() locks the process mutex, takes the child, if any, kills it and
\* waits for it.
AnyoneStopKill(i) ==
    /\ anyone_calls[i] = At("stop", "kill")
    /\ ~ProcessLocked
    /\ anyone_calls' = [anyone_calls EXCEPT ![i] = At("stop", "clear")]
    /\ anyone_service' = [anyone_service EXCEPT !.process = NULL]
    /\ anyone_os' =
         [anyone_os EXCEPT !.children = @ \ {anyone_service.process}]
    /\ UNCHANGED <<core, limiter, sweeper, create_call, parsed, pump>>

\* *self.client.write().await = None
AnyoneStopClear(i) ==
    /\ anyone_calls[i] = At("stop", "clear")
    /\ CallSets(i, At("stop", "disable"),
                [anyone_service EXCEPT !.client = FALSE])
    /\ UNCHANGED <<core, limiter, sweeper, create_call, parsed, pump>>

\* *self.enabled.write().await = false
AnyoneStopDisable(i) ==
    /\ anyone_calls[i] = At("stop", "disable")
    /\ CallSets(i, At("stop", "stopped"),
                [anyone_service EXCEPT !.enabled = FALSE])
    /\ UNCHANGED <<core, limiter, sweeper, create_call, parsed, pump>>

\* *self.status.write().await = ServiceStatus::Stopped; Ok(()): the guard
\* of the process mutex is dropped.
AnyoneStopStopped(i) ==
    /\ anyone_calls[i] = At("stop", "stopped")
    /\ CallSets(i, Returned("stop", "ok"),
                [anyone_service EXCEPT !.status = "Stopped"])
    /\ UNCHANGED <<core, limiter, sweeper, create_call, parsed, pump>>

\* The child process exits on its own; the facade keeps its handle.
AnyoneChildExits(c) ==
    /\ c \in anyone_os.children
    /\ anyone_os' = [anyone_os EXCEPT !.children = @ \ {c}]
    /\ UNCHANGED <<core, limiter, sweeper, create_call, parsed, pump,
                   anyone_service, anyone_calls>>

\* ---------------------------------------------------------- specifications

\* The HTTP handlers.
HttpStep ==
    \/ \E u \in Users : CreateCheck(u)
    \/ \E u \in Users : CreateInsert(u)
    \/ \E s \in Sessions : TerminateSession(s)
    \/ \E s \in Sessions, c \in PayloadIds : UpdateSessionContainer(s, c)
    \/ \E s \in Sessions : ClearSessionDisconnection(s)
    \/ \E s \in Sessions : ReattachGet(s)
    \/ ReattachUpdate
    \/ ReattachReturn

\* The cleanup and health tasks of the lifecycle manager.
ReconcilerStep ==
    \/ CleanupTick
    \/ \E e \in cleanup_task.rows : CleanupSession(e)
    \/ CleanupRunAll
    \/ HealthTick
    \/ \E e \in health_task.rows : HealthCheck(e)

\* The /pty stream handler and the runtime it drives.
StreamStep ==
    \/ \E k \in Conns, s \in Sessions : PtyConnect(k, s)
    \/ \E k \in Conns : PtyStartContainer(k)
    \/ \E k \in Conns : PtyStartFails(k)
    \/ \E k \in Conns, why \in StreamEnds : PtyStreamEnds(k, why)
    \/ \E c \in ContainerIds : ContainerExits(c)

\* The store, the HTTP handlers, the cleanup and health tasks and the
\* clock, in both configurations (with and without a store).  The stream
\* handler never reads or writes the store: start_container and
\* cleanup_container touch the cache and the runtime only.  Its steps are
\* explored here in the configuration without a store, where the cache is
\* all the handlers have, and in SpecPty in both configurations.  Every
\* behaviour of either specification is a behaviour of the service.
Next ==
    \/ HttpStep
    \/ ReconcilerStep
    \/ Tick
    \/ ~db_pool /\ StreamStep

Spec == Init /\ [][Next]_vars

\* The stream handler with the runtime, and the handlers that create, bind
\* and terminate sessions.
PtyNext ==
    \/ \E u \in Users : CreateCheck(u)
    \/ \E u \in Users : CreateInsert(u)
    \/ \E s \in Sessions : TerminateSession(s)
    \/ \E s \in Sessions, c \in PayloadIds : UpdateSessionContainer(s, c)
    \/ StreamStep

SpecPty == Init /\ [][PtyNext]_vars

\* Attaching on a service whose health task and clock run: sessions are
\* created and bound, the health task marks rows disconnected, time
\* passes, and clients attach and get their containers.  How streams end
\* is explored in SpecPty.
AttachNext ==
    \/ \E u \in Users : CreateCheck(u)
    \/ \E u \in Users : CreateInsert(u)
    \/ \E s \in Sessions, c \in PayloadIds : UpdateSessionContainer(s, c)
    \/ HealthTick
    \/ \E e \in health_task.rows : HealthCheck(e)
    \/ Tick
    \/ \E k \in Conns, s \in Sessions : PtyConnect(k, s)
    \/ \E k \in Conns : PtyStartContainer(k)

SpecAttach == Init /\ [][AttachNext]_vars

\* The store alone: its session operations called in any order, and the
\* clock.
StoreNext ==
    \/ \E u \in Users : SessionsCreate(u)
    \/ \E s \in Sessions, st \in SessionStatus : SessionsUpdateStatus(s, st)
    \/ \E s \in Sessions : SessionsSetContainer(s, BogusId)
    \/ \E s \in Sessions : SessionsMarkDisconnected(s, GracePeriodSecs)
    \/ \E s \in Sessions : SessionsClearDisconnection(s)
    \/ \E s \in Sessions : SessionsTerminate(s)
    \/ Tick

SpecStore == Init /\ [][StoreNext]_vars

\* The limiter alone: calls for every identifier, with either window, at
\* any time.
RateNext ==
    \/ \E u \in Users, w \in WindowChoices :
           CheckAndIncrement(u, MaxRequests, w)
    \/ RateTick

SpecRate == Init /\ [][RateNext]_vars

\* stop_container called at any time, with any answers of the runtime, on
\* the containers the stream handler starts.
StopNext ==
    \/ \E u \in Users : CreateCheck(u)
    \/ \E u \in Users : CreateInsert(u)
    \/ \E k \in Conns, s \in Sessions : PtyConnect(k, s)
    \/ \E k \in Conns : PtyStartContainer(k)
    \/ \E c \in ContainerIds \cup {BogusId}, a \in RuntimeAnswers :
           StopContainerCall(c, a)

SpecStop == Init /\ [][StopNext]_vars

\* The orphan task on a service whose clients create sessions, attach
\* (which starts their containers), bind the containers to their rows and
\* terminate sessions.
OrphanSpecNext ==
    \/ \E u \in Users : CreateCheck(u)
    \/ \E u \in Users : CreateInsert(u)
    \/ \E k \in Conns, s \in Sessions : PtyConnect(k, s)
    \/ \E k \in Conns : PtyStartContainer(k)
    \/ \E s \in Sessions, c \in PayloadIds : UpdateSessionContainer(s, c)
    \/ \E s \in Sessions : TerminateSession(s)
    \/ OrphanStep

SpecOrphan == Init /\ [][OrphanSpecNext]_vars

\* A stop_container call of the orphan task after which the container is
\* gone: the runtime did what it was asked, or had no such container.
OrphanStopSettles ==
    \E a \in RuntimeAnswers :
        /\ a.stop = "not_found" \/ a.remove \in {"ok", "not_found"}
        /\ OrphanStop(a)

\* The same service with the orphan task scheduled fairly.  The task is
\* spawned at start-up and loops on a 300 s interval, so a tick that can
\* start does start; inside a tick each await returns, so the loop moves
\* on to its next container.  The runtime may fail a stop or a remove
\* request, but not every time it is asked.
SpecOrphanFair ==
    /\ SpecOrphan
    /\ WF_vars(OrphanTick)
    /\ WF_vars(\E c \in ContainerIds : OrphanCheck(c))
    /\ WF_vars(\E a \in RuntimeAnswers : OrphanStop(a))
    /\ SF_vars(OrphanStopSettles)

\* Clients that come and go on a service whose reconciler runs: sessions
\* are created and attached, a client whose stream is up binds the
\* container the stream was given, streams end, the cleanup and health
\* tasks tick and time passes.  A session whose cache entry is gone takes
\* no further attach (pty_websocket_handler answers 404).
LeaveNext ==
    \/ \E u \in Users : CreateCheck(u)
    \/ \E u \in Users : CreateInsert(u)
    \/ \E k \in Conns, s \in Sessions : PtyConnect(k, s)
    \/ \E k \in Conns : PtyStartContainer(k)
    \/ \E k \in Conns, why \in StreamEnds : PtyStreamEnds(k, why)
    \/ \E k \in Conns :
           /\ pty[k].pc = "pump"
           /\ UpdateSessionContainer(pty[k].id, pty[k].container_id)
    \/ ReconcilerStep
    \/ Tick

SpecLeave == Init /\ [][LeaveNext]_vars

\* The same service with its reconciler scheduled fairly: the cleanup and
\* the health task are spawned at start-up and loop on their intervals, so
\* a tick that can start does start and a loop that has a row left goes on
\* to it; and time passes.
SpecLeaveFair ==
    /\ SpecLeave
    /\ WF_vars(CleanupTick)
    /\ WF_vars(\E e \in cleanup_task.rows : CleanupSession(e))
    /\ WF_vars(CleanupRunAll)
    /\ WF_vars(HealthTick)
    /\ WF_vars(\E e \in health_task.rows : HealthCheck(e))
    /\ WF_vars(Tick)

\* Admission with a store that can fail: sessions are created, attached
\* and bound (which is what the quota counts), and create_session meets
\* denials and store errors.
AdmitNext ==
    \/ \E u \in Users : CreateCheck(u)
    \/ \E u \in Users : CreateInsert(u)
    \/ \E u \in Users : CreateDenied(u)
    \/ \E u \in Users : CreateCheckStoreFails(u)
    \/ \E u \in Users : CreateInsertStoreFails(u)
    \/ \E k \in Conns, s \in Sessions : PtyConnect(k, s)
    \/ \E k \in Conns : PtyStartContainer(k)
    \/ \E s \in Sessions, c \in PayloadIds : UpdateSessionContainer(s, c)

SpecAdmit == Init /\ [][AdmitNext]_vars

\* The egress facade with concurrent callers of start() and stop()
\* (enable_privacy and disable_privacy take no lock of their own).
AnyoneNext ==
    \/ \E i \in Callers : AnyoneStart(i)
    \/ \E i \in Callers, ok \in BOOLEAN : AnyoneStartPrerequisites(i, ok)
    \/ \E i \in Callers, ok \in BOOLEAN : AnyoneStartSpawn(i, ok)
    \/ \E i \in Callers, ready \in BOOLEAN : AnyoneStartWaitForReady(i, ready)
    \/ \E i \in Callers, ok \in BOOLEAN : AnyoneStartClient(i, ok)
    \/ \E i \in Callers : AnyoneStartEnable(i)
    \/ \E i \in Callers : AnyoneStartRunning(i)
    \/ \E i \in Callers : AnyoneStop(i)
    \/ \E i \in Callers : AnyoneStopKill(i)
    \/ \E i \in Callers : AnyoneStopClear(i)
    \/ \E i \in Callers : AnyoneStopDisable(i)
    \/ \E i \in Callers : AnyoneStopStopped(i)
    \/ \E c \in 1..MaxChildren : AnyoneChildExits(c)

SpecAnyone == Init /\ [][AnyoneNext]_vars

\* The conversions between SessionStatus and its strings, applied to
\* every status and every string of StatusStrings.
ParseNext ==
    \/ \E s \in StatusStrings : ParseStatus(s)
    \/ \E status \in SessionStatusVariants : RoundTrip(status)

SpecParse == Init /\ [][ParseNext]_vars

\* ------------------------------------------------------- the raw-PTY pump

\* mpsc::channel::<()>(1): the shutdown channel holds one message.
ShutdownCapacity == 1

\* mpsc::channel::<(u16, u16)>(4): the resize channel holds four requests.
ResizeCapacity == 4

\* max_consecutive_errors of the output task.
MaxConsecutiveErrors == 5

\* A WebSocket message: its kind, its payload, and for a text payload
\* what the input task's tests find in it: text.starts_with("{\"resize\":"),
\* whether serde_json::from_str parses it, what get("resize") of the parsed
\* value is (an array of two elements, another array, another value,
\* nothing), and whether as_u64() of the two elements is Some.
Frame(kind, payload, starts_with, from_str, resize, as_u64) ==
    [kind |-> kind, payload |-> payload, starts_with |-> starts_with,
     from_str |-> from_str, resize |-> resize, as_u64 |-> as_u64]

\* Text frames a client can send.
TextFrames ==
    {Frame("text", "ls", FALSE, FALSE, "none", FALSE),
     Frame("text", "{\"cmd\":1}", FALSE, TRUE, "none", FALSE),
     Frame("text", "{\"resize\":[80,24]}", TRUE, TRUE, "array2", TRUE),
     Frame("text", "{\"resize\":[\"a\",\"b\"]}", TRUE, TRUE, "array2", FALSE),
     Frame("text", "{\"resize\":[80]}", TRUE, TRUE, "array", FALSE),
     Frame("text", "{\"resize\":\"big\"}", TRUE, TRUE, "other", FALSE),
     Frame("text", "{\"resize\":[80,", TRUE, FALSE, "none", FALSE)}

\* What the input task's read of the WebSocket yields while the client is
\* connected: a text frame, a binary frame, a ping or pong, a close frame.
WsMessages ==
    TextFrames
        \cup {Frame("binary", "ls", FALSE, FALSE, "none", FALSE),
              Frame("binary", "{\"resize\":[80,24]}", FALSE, FALSE, "none",
                    FALSE),
              Frame("ping", "", FALSE, FALSE, "none", FALSE),
              Frame("close", "", FALSE, FALSE, "none", FALSE)}

\* if text.starts_with("{\"resize\":"): the frame is taken as a resize
\* command, and the loop continues with the next message whatever the
\* command turns out to be.
TakenAsResize(m) == m.kind = "text" /\ m.starts_with

\* Inside: the text parses, its "resize" is an array and the array has two
\* elements; the elements that are not numbers become 80 and 24.
ResizeDispatched(m) ==
    TakenAsResize(m) /\ m.from_str /\ m.resize = "array2"

\* input.write_all: every binary frame and every other text frame.
WrittenToStdin(m) ==
    m.kind = "binary" \/ (m.kind = "text" /\ ~TakenAsResize(m))

\* The Receiver of the shutdown channel is moved into the input task and
\* lives as long as that task's future does.
ShutdownReceiverAlive == pump.input_task # "ended"

\* The Sender of the resize channel is moved into the input task as well.
ResizeSenderAlive == pump.input_task # "ended"

\* The exec stream is attached: the channels are made and the three tasks
\* are spawned; the handler waits in tokio::join! for the three of them.
PumpStart ==
    /\ pump = NoPump
    /\ pump' = [pump EXCEPT !.handler = "join", !.input_task = "select",
                            !.output_task = "read", !.resize_task = "recv"]
    /\ UNCHANGED <<core, limiter, sweeper, create_call, facade, parsed>>

\* The input task's select! takes the shutdown branch: recv() yields the
\* buffered message, and the task leaves its loop.
InputShutdown ==
    /\ pump.input_task = "select"
    /\ pump.shutdown > 0
    /\ pump' = [pump EXCEPT !.shutdown = @ - 1, !.input_task = "finished"]
    /\ UNCHANGED <<core, limiter, sweeper, create_call, facade, parsed>>

\* The input task's select! takes the WebSocket branch and a message is
\* there (a closed connection yields None or an error). A resize command is
\* handed to the resize channel; input is written to the shell's stdin,
\* and a failed write leaves the loop; a close, an error and the end of
\* the stream leave the loop; a ping or pong only refreshes last_activity,
\* which every text and binary frame does as well.
InputMessage(m, write_ok) ==
    /\ pump.input_task = "select"
    /\ (pump.ws = "open" /\ m.kind \in {"text", "binary"})
          => Len(pump.inbound) < MaxFrames
    /\ pump' =
        [pump EXCEPT
            !.input_task =
                IF pump.ws = "closed" \/ m.kind = "close" THEN "finished"
                ELSE IF ResizeDispatched(m) THEN "resize_send"
                ELSE IF WrittenToStdin(m) /\ ~write_ok THEN "finished"
                ELSE "select",
            !.idle =
                IF pump.ws = "open" /\ m.kind # "close" THEN 0 ELSE @,
            !.inbound =
                IF pump.ws = "open" /\ m.kind \in {"text", "binary"}
                THEN Append(@, m) ELSE @,
            !.stdin =
                IF pump.ws = "open" /\ WrittenToStdin(m) /\ write_ok
                THEN Append(@, m.payload) ELSE @]
    /\ UNCHANGED <<core, limiter, sweeper, create_call, facade, parsed>>

\* The 30 s read times out and last_activity.elapsed() > idle_timeout is
\* false: the loop goes on. At the read timeout that completes the 600 s
\* the elapsed time is 600 s and the time the loop itself took, which the
\* test may find equal to or greater than 600 s.
InputReadTimeout ==
    /\ pump.input_task = "select"
    /\ pump.ws = "open"
    /\ pump.idle + 1 <= IdleReads
    /\ pump' = [pump EXCEPT !.idle = @ + 1]
    /\ UNCHANGED <<core, limiter, sweeper, create_call, facade, parsed>>

\* The 30 s read times out and last_activity is more than 600 s old: the
\* task logs a warning and leaves its loop.
InputIdleTimeout ==
    /\ pump.input_task = "select"
    /\ pump.ws = "open"
    /\ pump.idle + 1 >= IdleReads
    /\ pump' = [pump EXCEPT !.idle = @ + 1, !.input_task = "finished"]
    /\ UNCHANGED <<core, limiter, sweeper, create_call, facade, parsed>>

\* resize_tx.send((cols, rows)).await: waits while the channel is full; an
\* Err (the resize task gone) is dropped.
InputResizeSend ==
    /\ pump.input_task = "resize_send"
    /\ \/ /\ pump.resize_task # "ended"
          /\ pump.resize < ResizeCapacity
          /\ pump' = [pump EXCEPT !.resize = @ + 1, !.input_task = "select"]
       \/ /\ pump.resize_task = "ended"
          /\ pump' = [pump EXCEPT !.input_task = "select"]
    /\ UNCHANGED <<core, limiter, sweeper, create_call, facade, parsed>>

\* A shutdown Sender's send(()).await, as tokio's bounded channel carries
\* it out: Err at once when the Receiver is gone, the message buffered
\* when there is room, and otherwise the sender waits.
ShutdownSendReturns(room) == ~ShutdownReceiverAlive \/ room

\* The input task, out of its loop: shutdown_tx.send(()).await, then the
\* task ends and drops the shutdown Receiver, the resize Sender, the
\* WebSocket's read half and the shell's stdin.
InputSendShutdown ==
    /\ pump.input_task = "finished"
    /\ ShutdownSendReturns(pump.shutdown < ShutdownCapacity)
    /\ pump' = [pump EXCEPT !.shutdown = 0, !.input_task = "ended"]
    /\ UNCHANGED <<core, limiter, sweeper, create_call, facade, parsed>>

\* The output task reads a chunk of the shell's output and sends it to the
\* client; a failed send leaves the loop.
OutputData ==
    /\ pump.output_task = "read"
    /\ pump.shell = "running"
    /\ pump' = [pump EXCEPT !.consecutive_errors = 0,
                            !.output_task =
                                IF pump.ws = "open" THEN "read"
                                ELSE "finished",
                            !.to_client =
                                IF pump.ws = "open" THEN @ \cup {"output"}
                                ELSE @]
    /\ UNCHANGED <<core, limiter, sweeper, create_call, facade, parsed>>

\* The output task's read yields an error: the fifth in a row leaves the
\* loop, an earlier one is followed by a 100 ms sleep.
OutputError ==
    /\ pump.output_task = "read"
    /\ pump.consecutive_errors < MaxConsecutiveErrors
    /\ pump' = [pump EXCEPT !.consecutive_errors = @ + 1,
                            !.output_task =
                                IF pump.consecutive_errors + 1
                                       >= MaxConsecutiveErrors
                                THEN "finished" ELSE "read"]
    /\ UNCHANGED <<core, limiter, sweeper, create_call, facade, parsed>>

\* The shell's output stream has ended: the task tells the client (the
\* result of that send is dropped) and leaves the loop.
OutputEnded ==
    /\ pump.output_task = "read"
    /\ pump.shell = "exited"
    /\ pump' = [pump EXCEPT !.output_task = "finished",
                            !.to_client =
                                IF pump.ws = "open"
                                THEN @ \cup {"shell_exited"} ELSE @]
    /\ UNCHANGED <<core, limiter, sweeper, create_call, facade, parsed>>

\* The 60 s read times out: the task pings the client, and a failed ping
\* leaves the loop.
OutputTimeout ==
    /\ pump.output_task = "read"
    /\ pump' = [pump EXCEPT !.output_task =
                                IF pump.ws = "open" THEN "read"
                                ELSE "finished",
                            !.to_client =
                                IF pump.ws = "open" THEN @ \cup {"ping"}
                                ELSE @]
    /\ UNCHANGED <<core, limiter, sweeper, create_call, facade, parsed>>

\* The output task, out of its loop: shutdown_tx2.send(()).await, then the
\* task ends. A message sent to a dropped Receiver is lost.
OutputSendShutdown ==
    /\ pump.output_task = "finished"
    /\ ShutdownSendReturns(pump.shutdown < ShutdownCapacity)
    /\ pump' = [pump EXCEPT !.shutdown =
                                IF ShutdownReceiverAlive THEN @ + 1 ELSE @,
                            !.output_task = "ended"]
    /\ UNCHANGED <<core, limiter, sweeper, create_call, facade, parsed>>

\* The resize task's recv(): a queued request, or None once the queue is
\* empty and the Sender is dropped, which ends the task.
ResizeRecv ==
    /\ pump.resize_task = "recv"
    /\ \/ /\ pump.resize > 0
          /\ pump' = [pump EXCEPT !.resize = @ - 1,
                                  !.resize_task = "resize_exec"]
       \/ /\ pump.resize = 0
          /\ ~ResizeSenderAlive
          /\ pump' = [pump EXCEPT !.resize_task = "ended"]
    /\ UNCHANGED <<core, limiter, sweeper, create_call, facade, parsed>>

\* docker.resize_exec returns; its result is only logged.
ResizeExec ==
    /\ pump.resize_task = "resize_exec"
    /\ pump' = [pump EXCEPT !.resize_task = "recv"]
    /\ UNCHANGED <<core, limiter, sweeper, create_call, facade, parsed>>

\* tokio::join! returns once the three tasks have ended; the handler logs
\* the completion and runs cleanup_container.
PumpJoin ==
    /\ pump.handler = "join"
    /\ pump.input_task = "ended"
    /\ pump.output_task = "ended"
    /\ pump.resize_task = "ended"
    /\ pump' = [pump EXCEPT !.handler = "completed"]
    /\ UNCHANGED <<core, limiter, sweeper, create_call, facade, parsed>>

\* The client's connection goes away.
ClientDisconnects ==
    /\ pump.handler = "join"
    /\ pump.ws = "open"
    /\ pump' = [pump EXCEPT !.ws = "closed"]
    /\ UNCHANGED <<core, limiter, sweeper, create_call, facade, parsed>>

\* The shell in the container exits.
ShellExits ==
    /\ pump.handler = "join"
    /\ pump.shell = "running"
    /\ pump' = [pump EXCEPT !.shell = "exited"]
    /\ UNCHANGED <<core, limiter, sweeper, create_call, facade, parsed>>

\* One iteration of the output task's loop.
OutputStep == OutputData \/ OutputError \/ OutputEnded \/ OutputTimeout

PumpNext ==
    \/ PumpStart
    \/ InputShutdown
    \/ \E m \in WsMessages, write_ok \in BOOLEAN : InputMessage(m, write_ok)
    \/ InputReadTimeout
    \/ InputIdleTimeout
    \/ InputResizeSend
    \/ InputSendShutdown
    \/ OutputData
    \/ OutputError
    \/ OutputEnded
    \/ OutputTimeout
    \/ OutputSendShutdown
    \/ ResizeRecv
    \/ ResizeExec
    \/ PumpJoin
    \/ ClientDisconnects
    \/ ShellExits

SpecPump == Init /\ [][PumpNext]_vars

\* The runtime polls every spawned task that can make progress, the
\* select! of the input task picks among its ready branches at random, and
\* every read of the output task returns within its 60 s timeout. The
\* client is taken to leave and the shell to exit in the end.
SpecPumpFair ==
    /\ SpecPump
    /\ WF_vars(PumpStart)
    /\ SF_vars(InputShutdown)
    /\ WF_vars(InputResizeSend)
    /\ WF_vars(InputSendShutdown)
    /\ WF_vars(OutputStep)
    /\ WF_vars(OutputSendShutdown)
    /\ WF_vars(ResizeRecv)
    /\ WF_vars(ResizeExec)
    /\ WF_vars(PumpJoin)
    /\ WF_vars(ClientDisconnects)
    /\ WF_vars(ShellExits)
    /\ WF_vars(\E m \in WsMessages, write_ok \in BOOLEAN :
                   InputMessage(m, write_ok))

\* ----------------------------------------------------------------- claims

\* The rows of a user that hold a slot of the per-user quota as the data
\* model counts them: status created or running.
CreatedOrRunning(user_id) ==
    {s \in DOMAIN db :
        db[s].user_id = user_id /\ db[s].status \in {"created", "running"}}

\* C1: in every reachable state, every row with status terminated has
\* container_id NULL.
C1_TerminatedHasNoContainer ==
    \A s \in DOMAIN db :
        db[s].status = "terminated" => db[s].container_id = NULL

\* C2: terminated is a sink: no step changes the status of a row that is
\* terminated.
C2_TerminatedIsSink ==
    [][\A s \in DOMAIN db :
          db[s].status = "terminated" => db'[s].status = "terminated"]_vars

\* C3: for every user, the rows with status created or running number at
\* most max_containers_per_user.
C3_CreatedOrRunningWithinQuota ==
    \A u \in Users : Cardinality(CreatedOrRunning(u)) <= MaxContainersPerUser

\* C4: for every user, count_active_by_user (created or running, with a
\* container) is at most max_containers_per_user.
C4_ActiveCountWithinQuota ==
    \A u \in Users : CountActiveByUser(u) <= MaxContainersPerUser

\* C5: a row is disconnected if and only if disconnected_at and
\* expires_at are both set.
C5_DisconnectedIffTimestamps ==
    \A s \in DOMAIN db :
        db[s].status = "disconnected"
            <=> (db[s].disconnected_at # NULL /\ db[s].expires_at # NULL)

\* C6: every running row has disconnected_at and expires_at NULL.
C6_RunningHasNoTimestamps ==
    \A s \in DOMAIN db :
        db[s].status = "running"
            => (db[s].disconnected_at = NULL /\ db[s].expires_at = NULL)

\* C7: no two rows that are not terminated hold the same container_id.
C7_ContainerRefUnique ==
    \A s, r \in DOMAIN db :
        (/\ s # r
         /\ db[s].status # "terminated"
         /\ db[r].status # "terminated"
         /\ db[s].container_id # NULL)
            => db[s].container_id # db[r].container_id

\* The status changes of the session state machine.
LegalTransitions ==
    {<<"created", "running">>, <<"running", "disconnected">>,
     <<"disconnected", "running">>, <<"disconnected", "terminated">>,
     <<"created", "terminated">>, <<"running", "terminated">>}

\* C8: every change of a row's status is one of the legal transitions.
C8_OnlyLegalTransitions ==
    [][\A s \in DOMAIN db :
          db'[s].status # db[s].status
              => <<db[s].status, db'[s].status>> \in LegalTransitions]_vars

\* C9: when a /pty stream ends because the client closed the socket, the
\* handler leaves the session's row disconnected with
\* expires_at = disconnected_at + grace, and the container running.
C9_ClientCloseMarksDisconnected ==
    [][\A k \in Conns :
          (/\ db_pool
           /\ pty[k].pc = "pump"
           /\ pty'[k].pc = "closed"
           /\ pty'[k].ended = "client_closed"
           /\ pty[k].id \in DOMAIN db)
              => /\ db'[pty[k].id].status = "disconnected"
                 /\ db'[pty[k].id].expires_at
                        = db'[pty[k].id].disconnected_at + GracePeriodSecs
                 /\ docker'[pty[k].container_id] # 0]_vars

\* A reattach request for id is decided in this step.
ReattachDecides(id) ==
    reattach.pc = "idle" /\ reattach'.pc # "idle" /\ reattach'.id = id

\* The request decided in this step is accepted: the handler goes on to
\* answer 200, or has answered 200.
ReattachAccepts ==
    \/ reattach'.pc = "update"
    \/ reattach'.pc = "done" /\ reattach'.code = 200

\* The request decided in this step is refused with this code.
ReattachRefuses(code) ==
    reattach'.pc = "done" /\ reattach'.code = code

\* The session is known to the service, in the store or in the cache.
SessionExists(id) == id \in DOMAIN db \/ id \in DOMAIN sessions

\* The session's row is disconnected and the current time is strictly
\* before its expires_at.
InGraceWindow(id) ==
    /\ id \in DOMAIN db
    /\ db[id].status = "disconnected"
    /\ db[id].expires_at # NULL
    /\ now < db[id].expires_at

LiveStream(k, id) == pty[k].pc = "pump" /\ pty[k].id = id

\* C11: at most one stream is attached to a session: no attach is
\* accepted (upgraded, to go on to start_container) for a session on which
\* another connection has a live stream.
C11_AttachWhileStreamingIsRejected ==
    [][\A k \in Conns :
          (pty[k].pc # "starting" /\ pty'[k].pc = "starting")
              => ~\E other \in Conns \ {k} : LiveStream(other, pty'[k].id)]_vars

\* The store's row of the session is disconnected with expires_at in the
\* past.
GracePassed(id) ==
    /\ db_pool
    /\ id \in DOMAIN db
    /\ db[id].status = "disconnected"
    /\ db[id].expires_at # NULL
    /\ db[id].expires_at < now

\* C12: an attach for a session whose row is disconnected with expires_at
\* in the past is rejected: it is not upgraded and starts no container.
C12_AttachAfterGraceIsRejected ==
    [][\A k \in Conns :
          (pty[k].pc # "starting" /\ pty'[k].pc = "starting")
              => ~GracePassed(pty'[k].id)]_vars

\* C13: the expiry sweep is atomic: the step in which the sweep is handed
\* its expired rows is the step that leaves every one of them terminated,
\* so that no other caller can be handed, or act on, a row it holds.
C13_SweepReturnsAndTerminatesAtOnce ==
    [][(cleanup_task.pc = "idle" /\ cleanup_task'.pc = "loop")
          => \A e \in cleanup_task'.rows :
                 db'[e.id].status = "terminated"]_vars

\* C14: when a tick of the expiry sweep completes, every session that
\* get_expired returned at its start (disconnected, expires_at earlier
\* than the start) is terminated, and the container it had is no longer
\* in the runtime.
C14_SweptSessionsAreTerminated ==
    [][(cleanup_task.pc = "loop" /\ cleanup_task'.pc = "idle")
          => \A e \in cleanup_task.expired :
                 /\ db'[e.id].status = "terminated"
                 /\ e.container_id \in ContainerIds
                        => docker'[e.container_id] = 0]_vars

\* The smaller of two numbers.
Min(a, b) == IF a <= b THEN a ELSE b

\* C15: in every bucket, of the calls that committed, the first
\* max_requests returned Allowed and every later one Denied: the calls
\* allowed so far are min(calls so far, max_requests), so at most
\* max_requests are allowed and no call after a denied one is allowed.
C15_FirstNCallsOfABucketAllowed ==
    \A key \in DOMAIN rate_log :
        rate_log[key].allowed = Min(rate_log[key].ok, MaxRequests)

\* A bucket has had more calls than max_requests: some were denied.
C15_BucketWithDeniedCalls ==
    \E key \in DOMAIN rate_log :
        /\ rate_log[key].ok > MaxRequests
        /\ rate_log[key].allowed = MaxRequests
        /\ rate_limits[key] = rate_log[key].ok

\* C16: a terminate of a session that has been terminated (its row is
\* terminated and its SessionTerminated event is logged) is a no-op: no
\* step terminates it once more and logs a second event, also when the
\* explicit terminate and the expiry sweep act on the same session.
C16_SecondTerminateIsNoOp ==
    [][\A s \in DOMAIN db :
          (db[s].status = "terminated" /\ audit[s] >= 1)
              => audit'[s] = audit[s]]_vars

\* C17: disconnect is idempotent: a row that is disconnected, with its
\* disconnected_at set, and is marked disconnected again keeps its
\* disconnected_at and expires_at.
C17_DisconnectKeepsEarliest ==
    [][\A s \in DOMAIN db :
          (/\ db[s].status = "disconnected"
           /\ db[s].disconnected_at # NULL
           /\ db'[s].status = "disconnected")
              => /\ db'[s].disconnected_at = db[s].disconnected_at
                 /\ db'[s].expires_at = db[s].expires_at]_vars

\* C18: stop_container returns Ok whenever the runtime answers not found at
\* the stop step or at the remove step; a call that returned Ok leaves no
\* such container, so a second call for the same container, to which the
\* runtime answers not found, returns Ok as well.
C18_NotFoundIsSuccess ==
    /\ (stop_call.stop = "not_found" \/ stop_call.remove = "not_found")
           => stop_call.result = "ok"
    /\ stop_call.result = "ok" => ~ContainerExists(stop_call.container_id)
    /\ (stop_call.again /\ stop_call.stop = "not_found")
           => stop_call.result = "ok"

\* A second call for a container the runtime had issued and an earlier
\* call stopped and removed: the runtime answered not found and the call
\* returned Ok.
C18_SecondCallSucceeded ==
    /\ stop_call.container_id \in ContainerIds
    /\ stop_call.again
    /\ stop_call.stop = "not_found"
    /\ stop_call.result = "ok"

\* The orphan task's stop_container call returns in this step, and the
\* container it was called for is gone with it.
OrphanSweepRemoves(c) ==
    /\ orphan_task.container_id = c
    /\ orphan_task' # orphan_task
    /\ ContainerExists(c)
    /\ docker'[c] = 0

\* C20: the orphan sweep never stops or removes a container that a row
\* whose status is not terminated references, however its list, check and
\* stop steps interleave with the binding and the termination of sessions.
C20_SweepSparesTrackedContainers ==
    [][\A c \in ContainerIds :
          OrphanSweepRemoves(c) => ~IsContainerTracked(c)]_vars

\* An orphan: a container of the runtime that no row whose status is not
\* terminated references, on a service that runs the reconciler.
Orphan(c) ==
    /\ db_pool
    /\ ContainerExists(c)
    /\ ~IsContainerTracked(c)

C21_StartedContainerIsBound ==
    [][\A k \in Conns :
          (/\ db_pool
           /\ pty[k].pc = "starting"
           /\ pty'[k].pc = "pump"
           /\ pty[k].id \in DOMAIN db)
              => /\ db'[pty[k].id].container_id = pty'[k].container_id
                 /\ db'[pty[k].id].status = "running"]_vars

\* C22: when start_container fails for a connection, the session's row is
\* terminated by the step in which the handler gives up.
C22_FailedStartTerminatesSession ==
    [][\A k \in Conns :
          (/\ db_pool
           /\ pty[k].pc = "starting"
           /\ pty'[k].pc = "closed"
           /\ pty[k].id \in DOMAIN db)
              => db'[pty[k].id].status = "terminated"]_vars

\* A create_session request of the user is answered with this code in
\* this step.
CreateAnswers(user_id, code) ==
    /\ create_call' # create_call
    /\ create_call'.user_id = user_id
    /\ create_call'.code = code

\* C23: with a store, a create_session request passes the quota check
\* only if the user's active count is below the maximum at that time, and
\* is denied (429) only if it is not; a denied request inserts no row and
\* adds no cache entry.
C23_DeniedExactlyAtQuota ==
    [][\A u \in Users :
          db_pool =>
             /\ admitted'[u] > admitted[u]
                   => CountActiveByUser(u) < MaxContainersPerUser
             /\ CreateAnswers(u, 429)
                   => /\ CountActiveByUser(u) >= MaxContainersPerUser
                      /\ db' = db
                      /\ sessions' = sessions
                      /\ admitted' = admitted]_vars

\* C24: a create_session request whose store call fails answers an error
\* (5xx) and creates nothing: it is not admitted past the check that
\* failed, and no session enters the cache.
C24_StoreFailureIsSurfaced ==
    [][(create_call' # create_call /\ create_call'.failed)
          => /\ create_call'.code >= 500
             /\ admitted' = admitted
             /\ sessions' = sessions]_vars

\* C25: with a store, a session enters the cache only with a row in the
\* store, and every status or container a cache entry comes to show is, in
\* that same state, what the session's row holds.
C25_CacheShowsWhatIsStored ==
    [][\A s \in DOMAIN sessions' :
          (db_pool /\ (s \notin DOMAIN sessions \/ sessions'[s] # sessions[s]))
              => /\ s \in DOMAIN db'
                 /\ db'[s].status = sessions'[s].status
                 /\ db'[s].container_id = sessions'[s].container_id]_vars

\* C26: a session whose row is terminated has no cache entry, or one
\* whose status is terminated.
C26_CacheAgreesOnTerminated ==
    \A s \in DOMAIN db :
        (db[s].status = "terminated" /\ s \in DOMAIN sessions)
            => sessions[s].status = "terminated"

\* Caller i issues start() in this step.
StartIssued(i) ==
    /\ anyone_calls[i].pc = "idle"
    /\ anyone_calls'[i] # anyone_calls[i]
    /\ anyone_calls'[i].op = "start"

\* C27: however start() and stop() calls interleave, at most one child
\* process of the facade is alive, and it is the one the facade holds; a
\* start() issued while the status is Running returns Ok in that step and
\* leaves the facade's fields and the processes as they were.
C27_AtMostOneChild ==
    [][/\ Cardinality(anyone_os'.children) <= 1
       /\ anyone_os'.children \subseteq {anyone_service'.process}
       /\ \A i \in Callers :
             (StartIssued(i) /\ anyone_service.status = "Running")
                 => /\ anyone_calls'[i] = Returned("start", "ok")
                    /\ anyone_service' = anyone_service
                    /\ anyone_os' = anyone_os]_vars

\* Every caller's last call is a start() that returned Ok, the facade is
\* Running, and the one child it holds is alive.
C27_TwoStartsOneChild ==
    /\ anyone_service.status = "Running"
    /\ anyone_service.process # NULL
    /\ anyone_os.children = {anyone_service.process}
    /\ \A i \in Callers : anyone_calls[i] = Returned("start", "ok")

\* C28: when a start() returns an error, the facade is Stopped or Error,
\* not enabled, and holds no child process.
C28_FailedStartLeavesStopped ==
    [][\A i \in Callers :
          (/\ anyone_calls[i].op = "start"
           /\ anyone_calls[i].pc # "idle"
           /\ anyone_calls'[i] = Returned("start", "err"))
              => /\ anyone_service'.status \in {"Stopped", "Error"}
                 /\ ~anyone_service'.enabled
                 /\ anyone_service'.process = NULL]_vars

\* The string is a spelling of the status name: as long as the name, and
\* at each place the name's letter, small or capital.
Spells(s, status) ==
    /\ Len(s) = Len(Display(status))
    /\ \A i \in DOMAIN s :
          s[i] = Display(status)[i] \/ s[i] = Capital(Display(status)[i])

\* C29: a status written and parsed back is the same status; a string
\* that spells a status name in any mix of small and capital letters
\* parses as that status; every other string parses as Created.
C29_StatusRoundTrips ==
    /\ parsed.of # "none" => parsed.status = parsed.of
    /\ \A status \in SessionStatusVariants :
          Spells(parsed.input, status) => parsed.status = status
    /\ (\A status \in SessionStatusVariants : ~Spells(parsed.input, status))
          => parsed.status \in {"Created", "none"}

\* A string with a capital letter in it was parsed as a status other than
\* Created.
C29_ParsedIgnoringCase ==
    /\ parsed.of = "none"
    /\ parsed.status \in SessionStatusVariants \ {"Created"}
    /\ \E i \in DOMAIN parsed.input : parsed.input[i] \in DOMAIN Capitals


\* C30: the raw-PTY pump always tears down: once the input task or the
\* output task has ended, the other task and the resize task end too and
\* the handler's cleanup after the pump runs, whatever the order of the
\* two tasks' last steps.
C30_PumpTearsDown ==
    (pump.input_task = "ended" \/ pump.output_task = "ended")
        ~> (pump.handler = "completed")

\* The input task waits to send on the full shutdown channel whose
\* Receiver it holds itself, the output task having ended.
C30_InputTaskBlocked ==
    /\ pump.input_task = "finished"
    /\ pump.output_task = "ended"
    /\ pump.shutdown = ShutdownCapacity


\* The health task's loop handles the row e that its tick read.
Probed(e) ==
    /\ health_task.pc = "loop"
    /\ e \in health_task.rows
    /\ health_task' # health_task
    /\ health_task'.rows = health_task.rows \ {e}

\* C31: a health-probe tick marks a session that is Running, has a
\* container and whose container the runtime no longer has Disconnected,
\* expiring at now + grace, and appends one ContainerStopped event; the
\* probe never marks a session whose container still exists.
C31_ProbeMarksLostContainersOnly ==
    [][\A e \in health_task.rows :
          Probed(e) =>
              /\ (/\ db[e.id].status = "running"
                  /\ db[e.id].container_id = e.container_id
                  /\ e.container_id # NULL
                  /\ ~ContainerExists(e.container_id))
                     => /\ db'[e.id].status = "disconnected"
                        /\ db'[e.id].expires_at = now + GracePeriodSecs
                        /\ container_stopped[e.id] < MaxStoppedEvents
                              => container_stopped'[e.id]
                                     = container_stopped[e.id] + 1
              /\ (/\ db[e.id].container_id # NULL
                  /\ ContainerExists(db[e.id].container_id))
                     => db'[e.id] = db[e.id]]_vars


\* The control frame {"resize":[cols,rows]}.
WellFormedResize(m) ==
    /\ m.kind = "text"
    /\ m.starts_with
    /\ m.from_str
    /\ m.resize = "array2"
    /\ m.as_u64

\* The payloads of the frames that are not the control frame, in order.
RECURSIVE Forwarded(_)
Forwarded(frames) ==
    IF frames = <<>> THEN <<>>
    ELSE IF WellFormedResize(Head(frames)) THEN Forwarded(Tail(frames))
    ELSE <<Head(frames).payload>> \o Forwarded(Tail(frames))

\* C32: while the input task is in its loop, the shell's stdin has been
\* written the payloads of all the binary frames and all the text frames
\* received that are not a well-formed resize frame, unchanged and in the
\* order of arrival; a well-formed resize frame goes to the resize channel
\* and is not written.
C32_FramesForwardedVerbatim ==
    [][/\ pump'.input_task \in {"select", "resize_send"}
            => pump'.stdin = Forwarded(pump'.inbound)
       /\ (/\ Len(pump'.inbound) > Len(pump.inbound)
           /\ WellFormedResize(pump'.inbound[Len(pump'.inbound)]))
            => /\ pump'.input_task = "resize_send"
               /\ pump'.stdin = pump.stdin]_vars


\* The output task leaves its loop on a read error.
TornDownByReadError ==
    /\ pump.output_task = "read"
    /\ pump'.output_task = "finished"
    /\ pump'.consecutive_errors = pump.consecutive_errors + 1

\* C33: the output task tolerates up to 5 read errors in a row (a read
\* that succeeds starts the count again): it leaves its loop because of
\* read errors only after more than 5 failures in a row.
C33_FiveErrorsTolerated ==
    [][TornDownByReadError
          => pump'.consecutive_errors > MaxConsecutiveErrors]_vars


\* The input task leaves its loop on the idle test.
IdleTearDown ==
    /\ pump.input_task = "select"
    /\ pump'.input_task = "finished"
    /\ pump'.idle = pump.idle + 1

\* C34: after the idle ceiling without a message from the client the pump
\* is torn down and the client is sent a visible idle-timeout message; the
\* tear-down comes when the idle time reaches the ceiling exactly,
\* keepalive pings of the server or not.
C34_IdleCeilingTearsDownVisibly ==
    [][IdleTearDown
          => /\ pump'.idle = IdleReads
             /\ "idle_timeout" \in pump'.to_client]_vars


\* The container c was started by start_container for a connection whose
\* stream is attached and pumping.
LiveStreamOn(c) ==
    \E k \in Conns : pty[k].pc = "pump" /\ pty[k].container_id = c

\* C35: the orphan sweep never stops the container of a session that has
\* a live attached stream, whatever the session's row says when the sweep
\* runs.
C35_SweepSparesLiveStreams ==
    [][\A c \in ContainerIds :
          OrphanSweepRemoves(c) => ~LiveStreamOn(c)]_vars


\* The expiry sweep's loop handles the row e that get_expired returned.
Swept(e) ==
    /\ cleanup_task.pc = "loop"
    /\ e \in cleanup_task.rows
    /\ cleanup_task' # cleanup_task
    /\ cleanup_task'.rows = cleanup_task.rows \ {e}

\* The reattach request for the session has been answered 200 and the
\* session's row is not disconnected and expired.
Reattached(id) ==
    /\ reattach.pc = "done"
    /\ reattach.id = id
    /\ reattach.code = 200
    /\ ~GracePassed(id)

\* C36: the expiry sweep does not undo a reattach that succeeded after the
\* sweep had selected the session: when the sweep comes to a session that
\* was reattached and whose row is no longer disconnected and expired, it
\* neither terminates the row nor stops the session's container.
C36_SweepSparesReattachedSessions ==
    [][\A e \in cleanup_task.rows :
          (Swept(e) /\ Reattached(e.id))
              => /\ db'[e.id] = db[e.id]
                 /\ docker' = docker]_vars


\* The attach of connection k fails in this step: its handler gives up
\* before any stream of its own is set up.
AttachFails(k) == pty[k].pc = "starting" /\ pty'[k].pc = "closed"

\* C37: an attach that fails while another connection has a live stream
\* on the same session leaves that stream's container, the session's
\* cache entry and the session's row as they are.
C37_FailedAttachSparesLiveStream ==
    [][\A k \in Conns :
          (/\ AttachFails(k)
           /\ \E other \in Conns \ {k} : LiveStream(other, pty[k].id))
              => /\ docker' = docker
                 /\ sessions' = sessions
                 /\ db' = db]_vars


\* The session's client has closed its stream and cannot come back: the
\* handler has run cleanup_container, the cache has no entry for the
\* session, and no connection is attached or attaching to it.
ClientLeft(s) ==
    /\ db_pool
    /\ s \in DOMAIN db
    /\ s \notin DOMAIN sessions
    /\ \E k \in Conns :
          /\ pty[k].id = s
          /\ pty[k].pc = "closed"
          /\ pty[k].ended = "client_closed"
    /\ \A k \in Conns : pty[k].id = s => pty[k].pc = "closed"

\* The clock of the model has stopped inside the session's grace window.
ClockRanOut(s) ==
    /\ now = MaxTime
    /\ s \in DOMAIN db
    /\ db[s].status = "disconnected"
    /\ db[s].expires_at # NULL
    /\ db[s].expires_at >= now

\* C38: the row of every session whose client has disconnected for good
\* is terminated in the end (it does not stay created, running or
\* disconnected for ever), the reconciler's tasks being scheduled fairly.
C38_LeftSessionsAreTerminated ==
    \A s \in Sessions :
        ClientLeft(s)
            ~> \/ s \in DOMAIN db /\ db[s].status = "terminated"
               \/ ClockRanOut(s)

\* The store query of is_container_tracked failed for the container the
\* orphan task is about to stop.
TrackedQueryFailed(c) ==
    /\ orphan_task.container_id = c
    /\ orphan_task.query = "err"

\* C39: when the store query that says whether a container is tracked
\* fails, the orphan sweep does not take the container for an orphan: it
\* does not stop or remove it (stated for a container that a row whose
\* status is not terminated references at the time of the stop).
C39_FailedQuerySparesContainer ==
    [][\A c \in ContainerIds :
          TrackedQueryFailed(c) /\ IsContainerTracked(c)
              => ~OrphanSweepRemoves(c)]_vars

\* No start() or stop() call is in progress.
NoCallInProgress == \A i \in Callers : anyone_calls[i].pc = "idle"

\* C40: whenever the egress facade answers is_enabled() = true or its
\* status is Running, it holds a child process handle, however start()
\* and stop() calls interleaved (stated for the facade at rest, every
\* call having returned).
C40_EnabledHoldsChild ==
    (/\ NoCallInProgress
     /\ anyone_service.enabled \/ anyone_service.status = "Running")
        => anyone_service.process # NULL

====
